---- MODULE Spec2Model ----
(***************************************************************************)
(* Model of src/src/hooks.ts: the Hooks class of the Chart.js front-end of *)
(* Chartisan.  A chain of hooks (closures from configuration to            *)
(* configuration) is built by the registration methods and folded over a   *)
(* base configuration.                                                     *)
(*                                                                         *)
(* JavaScript values are tagged nodes [kind, v]:                           *)
(*   "map"  a plain object, v a function from keys to nodes                *)
(*   "arr"  an array, v a sequence of nodes                                *)
(*   "bool", "str", "num"  scalars                                         *)
(*   "undefined"  the value of an omitted argument or a missing key        *)
(***************************************************************************)
EXTENDS Integers, Sequences, FiniteSets, TLC

VARIABLES hooks, calls, pc, base, base0, chart, isBase, idx, seen, touched

vars == <<hooks, calls, pc, base, base0, chart, isBase, idx, seen, touched>>

\* ---------------------------------------------------------------- bounds
MaxCalls == 2
MaxDatasets == 3

\* ---------------------------------------------------------------- values
Map(f) == [kind |-> "map", v |-> f]
Arr(s) == [kind |-> "arr", v |-> s]
Bool(b) == [kind |-> "bool", v |-> b]
Str(s) == [kind |-> "str", v |-> s]
Num(n) == [kind |-> "num", v |-> n]
Undef == [kind |-> "undefined", v |-> "undefined"]
EmptyObj == Map(<<>>)

IsMap(n) == n.kind = "map"
IsArr(n) == n.kind = "arr"

\* n[k] of JavaScript, with optional chaining: undefined when n is not an
\* object or has no key k.
Get(n, k) == IF IsMap(n) /\ k \in DOMAIN n.v THEN n.v[k] ELSE Undef

\* n[k] = x on an object
Put(n, k, x) == Map((k :> x) @@ n.v)

\* { ...a, ...b }: b's keys win; spreading undefined adds nothing
Spread(a, b) == IF IsMap(b) THEN Map(b.v @@ a.v) ELSE a

\* JavaScript truthiness of the values that occur here
Truthy(n) ==
    CASE n.kind = "undefined" -> FALSE
      [] n.kind = "bool" -> n.v
      [] n.kind = "num" -> n.v # 0
      [] n.kind = "str" -> n.v # ""
      [] OTHER -> TRUE

\* a parameter default: used when the argument is undefined
Default(arg, d) == IF arg = Undef THEN d ELSE arg

\* !value
Not(b) == Bool(~Truthy(b))

\* the default palette exported by the Chartisan core
colorPalette == Arr(<<Str("#667EEA"), Str("#F56565"), Str("#48BB78")>>)

\* the structural merge of the Chartisan core
RECURSIVE mergeOptions(_, _)
mergeOptions(target, source) ==
    IF ~(IsMap(target) /\ IsMap(source)) THEN source
    ELSE Map([k \in (DOMAIN target.v) \cup (DOMAIN source.v) |->
                IF k \notin DOMAIN source.v THEN target.v[k]
                ELSE IF k \in DOMAIN target.v
                        /\ IsMap(target.v[k]) /\ IsMap(source.v[k])
                     THEN mergeOptions(target.v[k], source.v[k])
                     ELSE source.v[k]])

\* ---------------------------------------------------------------- hooks
\* A hook is a closure [kind, env]: kind names the method that pushed it,
\* env holds the variables it closed over.  Applying a hook gives
\* [ret, same]: ret is the returned configuration, same tells whether the
\* hook returned the very object it was given (modified in place) instead of
\* a new object.
Closure(kind, env) == [kind |-> kind, env |-> env]

\* index % length, as an index into a 1-based sequence; 0 when the
\* remainder is NaN (length 0)
Cycle(index, length) == IF length = 0 THEN 0 ELSE ((index - 1) % length) + 1

\* arr[index % arr.length]
AtCycle(arr, index) ==
    IF Cycle(index, Len(arr.v)) = 0 THEN Undef
    ELSE arr.v[Cycle(index, Len(arr.v))]

\* colorsMap with the palette indexed by the dataset index itself: no
\* wrap-around, datasets beyond the palette get undefined
colorsMap_noWrap(colors, datasets) ==
    Arr([index \in 1..Len(datasets.v) |->
            LET col == IF index <= Len(colors.v) THEN colors.v[index] ELSE Undef
            IN  Spread(datasets.v[index],
                       Map("borderColor" :> col @@ "backgroundColor" :> col))])

\* colorsMap without the spread of the dataset: only the two colours are left
colorsMap_onlyColors(colors, datasets) ==
    Arr([index \in 1..Len(datasets.v) |->
            Map("borderColor" :> AtCycle(colors, index)
                @@ "backgroundColor" :> AtCycle(colors, index))])

colorsMap(colors, datasets) ==
    Arr([index \in 1..Len(datasets.v) |->
            Spread(datasets.v[index],
                   Map("borderColor" :> AtCycle(colors, index)
                       @@ "backgroundColor" :> AtCycle(colors, index)))])

\* colorsHook without the guard: a data block without datasets gets an
\* empty dataset sequence
colorsHook_noGuard(env, c) ==
    LET colors == Get(env, "colors")
        datasets == Default(Get(Get(c, "data"), "datasets"), Arr(<<>>))
    IN  [ret |-> IF IsMap(Get(c, "data"))
                 THEN Put(c, "data",
                          Put(Get(c, "data"), "datasets",
                              colorsMap(colors, datasets)))
                 ELSE c,
         same |-> TRUE]

colorsHook(env, c) ==
    LET colors == Get(env, "colors")
        datasets == Get(Get(c, "data"), "datasets")
    IN  [ret |-> IF Truthy(datasets)
                 THEN Put(c, "data",
                          Put(Get(c, "data"), "datasets",
                              colorsMap(colors, datasets)))
                 ELSE c,
         same |-> TRUE]

\* { options: { maintainAspectRatio } }
responsiveFragment(env) ==
    Map("options" :>
        Map("maintainAspectRatio" :> Get(env, "maintainAspectRatio")))

\* responsiveHook with a shallow assign in place of the deep merge: the
\* options block is replaced by the fragment's
responsiveHook_assign(env, c) ==
    [ret |-> Put(c, "options", Get(responsiveFragment(env), "options")),
     same |-> FALSE]

responsiveHook(env, c) ==
    [ret |-> mergeOptions(c, responsiveFragment(env)), same |-> FALSE]

\* { options: { legend } }
legendFragment(env) ==
    Map("options" :> Map("legend" :> Get(env, "legend")))

legendHook(env, c) ==
    [ret |-> mergeOptions(c, legendFragment(env)), same |-> FALSE]

\* { options: { scale: { display } } } when strict, else
\* { options: { scales: { xAxes: [{ display }], yAxes: [{ display }] } } }
displayAxesFragment(env) ==
    LET display == Get(env, "display")
    IN  IF Truthy(Get(env, "strict"))
        THEN Map("options" :> Map("scale" :> Map("display" :> display)))
        ELSE Map("options" :>
                 Map("scales" :>
                     Map("xAxes" :> Arr(<<Map("display" :> display)>>)
                         @@ "yAxes" :> Arr(<<Map("display" :> display)>>))))

\* displayAxesHook that adds its entries to the axis arrays already there
displayAxesHook_accumulate(env, c) ==
    LET old(axis) ==
            LET a == Get(Get(Get(c, "options"), "scales"), axis)
            IN  IF IsArr(a) THEN a.v ELSE <<>>
        entry == Map("display" :> Get(env, "display"))
    IN  [ret |-> IF Truthy(Get(env, "strict"))
                 THEN mergeOptions(c, displayAxesFragment(env))
                 ELSE mergeOptions(c,
                        Map("options" :>
                            Map("scales" :>
                                Map("xAxes" :> Arr(Append(old("xAxes"), entry))
                                    @@ "yAxes" :> Arr(Append(old("yAxes"), entry)))))),
         same |-> FALSE]

displayAxesHook(env, c) ==
    [ret |-> mergeOptions(c, displayAxesFragment(env)), same |-> FALSE]

\* { options: { layout: { padding } } }
paddingFragment(env) ==
    Map("options" :> Map("layout" :> Map("padding" :> Get(env, "padding"))))

\* paddingHook with the arguments of the merge swapped: the configuration
\* is merged onto the fragment, so an existing padding wins
paddingHook_baseWins(env, c) ==
    [ret |-> mergeOptions(paddingFragment(env), c), same |-> FALSE]

paddingHook(env, c) ==
    [ret |-> mergeOptions(c, paddingFragment(env)), same |-> FALSE]

\* datasetsMap without wrap-around: datasets beyond the list are left alone
datasetsMap_noWrap(t, datasets) ==
    Arr([index \in 1..Len(datasets.v) |->
            Spread(datasets.v[index],
                   IF index <= Len(t.v) THEN t.v[index] ELSE Undef)])

datasetsMap(t, datasets) ==
    Arr([index \in 1..Len(datasets.v) |->
            Spread(datasets.v[index], AtCycle(t, index))])

\* datasetsHook that adds the restyled datasets to those already there
datasetsHook_concat(env, c) ==
    LET t == Get(env, "t")
        c1 == Put(c, "type", Get(env, "general"))
        datasets == Get(Get(c1, "data"), "datasets")
    IN  [ret |-> IF Truthy(datasets)
                 THEN Put(c1, "data",
                          Put(Get(c1, "data"), "datasets",
                              Arr(datasets.v \o datasetsMap(t, datasets).v)))
                 ELSE c1,
         same |-> TRUE]

datasetsHook(env, c) ==
    LET t == Get(env, "t")
        c1 == Put(c, "type", Get(env, "general"))
        datasets == Get(Get(c1, "data"), "datasets")
    IN  [ret |-> IF Truthy(datasets)
                 THEN Put(c1, "data",
                          Put(Get(c1, "data"), "datasets",
                              datasetsMap(t, datasets)))
                 ELSE c1,
         same |-> TRUE]

\* { options: { title } }
titleFragment(env) ==
    Map("options" :> Map("title" :> Get(env, "title")))

\* titleHook with a shallow assign in place of the deep merge: the options
\* block is replaced by the fragment's
titleHook_assign(env, c) ==
    [ret |-> Put(c, "options", Get(titleFragment(env), "options")),
     same |-> FALSE]

titleHook(env, c) ==
    [ret |-> mergeOptions(c, titleFragment(env)), same |-> FALSE]

\* { options: { scales: { yAxes: [{ ticks: { beginAtZero } }] } } }
beginAtZeroFragment(env) ==
    Map("options" :>
        Map("scales" :>
            Map("yAxes" :>
                Arr(<<Map("ticks" :>
                        Map("beginAtZero" :> Get(env, "beginAtZero")))>>))))

\* beginAtZeroHook that merges its entry onto the first y axis already there
beginAtZeroHook_elementwise(env, c) ==
    LET old == Get(Get(Get(c, "options"), "scales"), "yAxes")
        entry == Map("ticks" :> Map("beginAtZero" :> Get(env, "beginAtZero")))
        yAxes == IF IsArr(old) /\ Len(old.v) >= 1
                 THEN Arr([old.v EXCEPT ![1] = mergeOptions(@, entry)])
                 ELSE Arr(<<entry>>)
    IN  [ret |-> mergeOptions(c,
                    Map("options" :> Map("scales" :> Map("yAxes" :> yAxes)))),
         same |-> FALSE]

beginAtZeroHook(env, c) ==
    [ret |-> mergeOptions(c, beginAtZeroFragment(env)), same |-> FALSE]

\* the fragment a merge-based hook merges onto the configuration
Fragment(h) ==
    CASE h.kind = "responsive" -> responsiveFragment(h.env)
      [] h.kind = "legend" -> legendFragment(h.env)
      [] h.kind = "displayAxes" -> displayAxesFragment(h.env)
      [] h.kind = "padding" -> paddingFragment(h.env)
      [] h.kind = "title" -> titleFragment(h.env)
      [] h.kind = "beginAtZero" -> beginAtZeroFragment(h.env)

\* calling the closure h on the configuration c
CallHook(h, c) ==
    CASE h.kind = "colors" -> colorsHook(h.env, c)
      [] h.kind = "responsive" -> responsiveHook(h.env, c)
      [] h.kind = "legend" -> legendHook(h.env, c)
      [] h.kind = "displayAxes" -> displayAxesHook(h.env, c)
      [] h.kind = "padding" -> paddingHook(h.env, c)
      [] h.kind = "datasets" -> datasetsHook(h.env, c)
      [] h.kind = "title" -> titleHook(h.env, c)
      [] h.kind = "beginAtZero" -> beginAtZeroHook(h.env, c)

\* ---------------------------------------------------------------- registration
\* push that puts the hook at the front of the chain
push_unshift(hs, hook) == <<hook>> \o hs

\* push that starts the chain over with the new hook
push_reset(hs, hook) == <<hook>>

\* this.hooks.push(hook)
push(hs, hook) == Append(hs, hook)

colors(hs, colors_) ==
    push(hs, Closure("colors", Map("colors" :> Default(colors_, colorPalette))))

responsive(hs, maintainAspectRatio) ==
    push(hs, Closure("responsive",
             Map("maintainAspectRatio" :> Default(maintainAspectRatio, Bool(TRUE)))))

\* legend without the boolean coercion: a boolean is merged as it is
legend_noCoercion(hs, legend_) ==
    push(hs, Closure("legend", Map("legend" :> Default(legend_, EmptyObj))))

legend(hs, legend_) ==
    LET l0 == Default(legend_, EmptyObj)
        l1 == IF l0.kind = "bool" THEN Map("display" :> l0) ELSE l0
    IN  push(hs, Closure("legend", Map("legend" :> l1)))

displayAxes(hs, display, strict) ==
    push(hs, Closure("displayAxes",
             Map("display" :> Default(display, Bool(TRUE))
                 @@ "strict" :> Default(strict, Bool(FALSE)))))

\* minimalist that passes value on without negating it
minimalist_noNegation(hs, value) ==
    LET val == Default(value, Bool(TRUE))
    IN  displayAxes(legend(hs, Map("display" :> val)), val, Undef)

minimalist(hs, value) ==
    LET val == Default(value, Bool(TRUE))
    IN  displayAxes(legend(hs, Map("display" :> Not(val))), Not(val), Undef)

padding(hs, padding_) ==
    push(hs, Closure("padding", Map("padding" :> Default(padding_, Num(5)))))

\* e => (typeof e === 'string' ? { type: e } : e)
typeEntry(e) == IF e.kind = "str" THEN Map("type" :> e) ELSE e

datasets(hs, types, general) ==
    LET t == IF IsArr(types)
             THEN Arr([j \in 1..Len(types.v) |-> typeEntry(types.v[j])])
             ELSE Arr(<<Map("type" :> types)>>)
    IN  push(hs, Closure("datasets",
                 Map("t" :> t @@ "general" :> Default(general, Str("bar")))))

\* title with the default spread last: display is always true
title_defaultLast(hs, title_) ==
    LET t0 == Default(title_, EmptyObj)
        t1 == IF t0.kind = "str"
              THEN Map("text" :> t0 @@ "display" :> Bool(TRUE))
              ELSE Spread(t0, Map("display" :> Bool(TRUE)))
    IN  push(hs, Closure("title", Map("title" :> t1)))

title(hs, title_) ==
    LET t0 == Default(title_, EmptyObj)
        t1 == IF t0.kind = "str"
              THEN Map("text" :> t0 @@ "display" :> Bool(TRUE))
              ELSE Spread(Map("display" :> Bool(TRUE)), t0)
    IN  push(hs, Closure("title", Map("title" :> t1)))

beginAtZero(hs, beginAtZero_) ==
    push(hs, Closure("beginAtZero",
             Map("beginAtZero" :> Default(beginAtZero_, Bool(TRUE)))))

\* ---------------------------------------------------------------- inputs
Call(method, a1, a2) == [method |-> method, a1 |-> a1, a2 |-> a2]

Palettes == {Undef, Arr(<<Str("red")>>), Arr(<<Str("red"), Str("blue")>>)}
AspectArgs == {Undef, Bool(FALSE)}
LegendArgs == {Undef, Bool(FALSE), Map("display" :> Bool(FALSE)),
               Map("position" :> Str("bottom"))}
AxesArgs == {<<Bool(TRUE), Undef>>, <<Bool(FALSE), Undef>>,
             <<Bool(TRUE), Bool(TRUE)>>, <<Undef, Bool(FALSE)>>}
MinimalistArgs == {Undef, Bool(FALSE)}
PaddingArgs == {Undef, Num(10), Map("left" :> Num(1))}
TypesArgs == {<<Str("line"), Undef>>,
              <<Arr(<<Str("line"), Str("bar")>>), Undef>>,
              <<Arr(<<Str("line"), Str("bar")>>), Str("pie")>>,
              <<Arr(<<Map("type" :> Str("radar") @@ "fill" :> Bool(FALSE)),
                      Str("line")>>), Undef>>}
TitleArgs == {Undef, Str("Revenue"),
              Map("text" :> Str("Revenue") @@ "display" :> Bool(FALSE))}
ZeroArgs == {Undef, Bool(FALSE)}

\* dataset number n of a base configuration; the odd ones already carry a
\* type and colours
Dataset(n) ==
    IF n % 2 = 1
    THEN Map("order" :> Num(n) @@ "type" :> Str("pie")
             @@ "borderColor" :> Str("black") @@ "fill" :> Bool(TRUE))
    ELSE Map("order" :> Num(n))

DataBlocks ==
    {Map("labels" :> Arr(<<Str("a")>>))}
    \cup {Map("datasets" :> Arr([n \in 1..len |-> Dataset(n)])) : len \in 0..MaxDatasets}

OptionsBlock ==
    Map("maintainAspectRatio" :> Bool(TRUE)
        @@ "legend" :> Map("position" :> Str("top") @@ "display" :> Bool(TRUE))
        @@ "scales" :> Map("xAxes" :> Arr(<<Map("display" :> Bool(TRUE)),
                                            Map("display" :> Bool(TRUE))>>)
                           @@ "yAxes" :> Arr(<<Map("stacked" :> Bool(TRUE))>>))
        @@ "layout" :> Map("padding" :> Map("top" :> Num(2)))
        @@ "title" :> Map("text" :> Str("Old") @@ "fontSize" :> Num(12)))

Bases ==
    {EmptyObj, Map("type" :> Str("line"))}
    \cup {Map("type" :> Str("line") @@ "data" :> d) : d \in DataBlocks}
    \cup {Map("type" :> Str("line") @@ "data" :> d @@ "options" :> OptionsBlock) :
            d \in DataBlocks}

\* ---------------------------------------------------------------- state machine
None == Undef

\* a chain that is created with a hook already in it
Init_withHook ==
    /\ hooks = responsive(<<>>, Bool(FALSE))
    /\ calls = <<>>
    /\ pc = "idle"
    /\ base = None
    /\ base0 = None
    /\ chart = None
    /\ isBase = FALSE
    /\ idx = 0
    /\ seen = <<>>
    /\ touched = {}

Init ==
    /\ hooks = <<>>
    /\ calls = <<>>
    /\ pc = "idle"
    /\ base = None
    /\ base0 = None
    /\ chart = None
    /\ isBase = FALSE
    /\ idx = 0
    /\ seen = <<>>
    /\ touched = {}

CanRegister == pc = "idle" /\ Len(calls) < MaxCalls

Register(hs, c) ==
    /\ hooks' = hs
    /\ calls' = Append(calls, c)
    /\ UNCHANGED <<pc, base, base0, chart, isBase, idx, seen, touched>>

Colors ==
    /\ CanRegister
    /\ \E a \in Palettes : Register(colors(hooks, a), Call("colors", a, Undef))

Responsive ==
    /\ CanRegister
    /\ \E a \in AspectArgs :
        Register(responsive(hooks, a), Call("responsive", a, Undef))

Legend ==
    /\ CanRegister
    /\ \E a \in LegendArgs : Register(legend(hooks, a), Call("legend", a, Undef))

DisplayAxes ==
    /\ CanRegister
    /\ \E a \in AxesArgs :
        Register(displayAxes(hooks, a[1], a[2]), Call("displayAxes", a[1], a[2]))

Minimalist ==
    /\ CanRegister
    /\ \E a \in MinimalistArgs :
        Register(minimalist(hooks, a), Call("minimalist", a, Undef))

Padding ==
    /\ CanRegister
    /\ \E a \in PaddingArgs : Register(padding(hooks, a), Call("padding", a, Undef))

Datasets ==
    /\ CanRegister
    /\ \E a \in TypesArgs :
        Register(datasets(hooks, a[1], a[2]), Call("datasets", a[1], a[2]))

Title ==
    /\ CanRegister
    /\ \E a \in TitleArgs : Register(title(hooks, a), Call("title", a, Undef))

BeginAtZero ==
    /\ CanRegister
    /\ \E a \in ZeroArgs :
        Register(beginAtZero(hooks, a), Call("beginAtZero", a, Undef))

\* The caller hands a base configuration to the chain: the running
\* configuration starts as the caller's own object.
StartApply ==
    /\ pc = "idle"
    /\ \E b \in Bases :
        /\ base' = b
        /\ base0' = b
        /\ chart' = b
    /\ isBase' = TRUE
    /\ idx' = 1
    /\ seen' = <<>>
    /\ pc' = "applying"
    /\ UNCHANGED <<hooks, calls, touched>>

\* data = hook(data) for the next hook of the chain.  A hook that works in
\* place writes to the object it was given: to the caller's object while
\* the running configuration still is that object, and to the caller's data
\* block in any case (a merged copy is shallow and shares it).
ApplyStep ==
    /\ pc = "applying"
    /\ idx <= Len(hooks)
    /\ LET r == CallHook(hooks[idx], chart)
       IN  /\ chart' = r.ret
           /\ isBase' = (isBase /\ r.same)
           /\ base' = IF r.same /\ isBase THEN r.ret
                      ELSE IF r.same /\ IsMap(Get(base, "data"))
                           THEN Put(base, "data", Get(r.ret, "data"))
                           ELSE base
    /\ seen' = Append(seen, chart)
    /\ idx' = idx + 1
    /\ UNCHANGED <<hooks, calls, pc, base0, touched>>

FinishApply ==
    /\ pc = "applying"
    /\ idx > Len(hooks)
    /\ pc' = "done"
    /\ UNCHANGED <<hooks, calls, base, base0, chart, isBase, idx, seen, touched>>

\* the caller drops the result; the chain is kept
Return ==
    /\ pc = "done"
    /\ pc' = "idle"
    /\ base' = None
    /\ base0' = None
    /\ chart' = None
    /\ isBase' = FALSE
    /\ idx' = 0
    /\ seen' = <<>>
    /\ UNCHANGED <<hooks, calls, touched>>

Next ==
    \/ Colors
    \/ Responsive
    \/ Legend
    \/ DisplayAxes
    \/ Minimalist
    \/ Padding
    \/ Datasets
    \/ Title
    \/ BeginAtZero
    \/ StartApply
    \/ ApplyStep
    \/ FinishApply
    \/ Return

Spec == Init /\ [][Next]_vars

\* ---------------------------------------------------------------- the caller's argument objects
\* The objects (arrays, option objects) passed to the registration methods
\* stay the caller's, who may change them in place afterwards.  calls keeps
\* every argument as it was when it was passed; touched is the set of calls
\* whose argument object the caller has changed since.

\* the caller's in-place change of an argument object: a field of the first
\* entry of a list of style fragments, the first entry of a list of scalars,
\* or a field of an options object
Touch(arg) ==
    IF IsArr(arg)
    THEN IF IsMap(arg.v[1])
         THEN Arr([arg.v EXCEPT ![1] = Put(arg.v[1], "type", Str("bubble"))])
         ELSE Arr([arg.v EXCEPT ![1] = Str("green")])
    ELSE IF "left" \in DOMAIN arg.v
         THEN Put(arg, "left", Num(9))
         ELSE Put(arg, "display", Bool(TRUE))

Touchable(arg) == (IsArr(arg) /\ Len(arg.v) >= 1) \/ IsMap(arg)

\* The closure h, registered with the argument object arg0, once the caller
\* has changed that object into arg1.  colors, legend and padding close over
\* the parameter itself, so the closure sees the change; title closes over
\* a spread copy; datasets closes over a mapped copy of the list whose
\* object entries are the caller's own objects.
rebound(h, arg0, arg1) ==
    CASE h.kind = "colors" -> Closure("colors", Put(h.env, "colors", arg1))
      [] h.kind = "legend" -> Closure("legend", Put(h.env, "legend", arg1))
      [] h.kind = "padding" -> Closure("padding", Put(h.env, "padding", arg1))
      [] h.kind = "datasets" ->
            LET t == Get(h.env, "t")
            IN  Closure("datasets",
                    Put(h.env, "t",
                        IF IsArr(arg0)
                        THEN Arr([j \in 1..Len(t.v) |->
                                    IF IsMap(arg0.v[j]) THEN arg1.v[j]
                                    ELSE t.v[j]])
                        ELSE t))
      [] OTHER -> h

\* the index of the first hook registered by call n
RECURSIVE FirstHook(_, _)
FirstHook(cs, n) ==
    IF n = 1 THEN 1
    ELSE FirstHook(cs, n - 1)
            + (IF cs[n - 1].method = "minimalist" THEN 2 ELSE 1)

\* between two calls on the chain the caller changes, in place, an object it
\* passed to an earlier registration call
MutateArg ==
    /\ pc = "idle"
    /\ \E n \in (1..Len(calls)) \ touched :
        /\ Touchable(calls[n].a1)
        /\ hooks' = [hooks EXCEPT ![FirstHook(calls, n)] =
                        rebound(@, calls[n].a1, Touch(calls[n].a1))]
        /\ touched' = touched \cup {n}
    /\ UNCHANGED <<calls, pc, base, base0, chart, isBase, idx, seen>>

NextMut ==
    \/ Next
    \/ MutateArg

SpecMut == Init /\ [][NextMut]_vars

\* ---------------------------------------------------------------- pipeline as a function
\* the fold of a hook sequence over a configuration
RECURSIVE ApplyAll(_, _)
ApplyAll(hs, c) ==
    IF hs = <<>> THEN c ELSE ApplyAll(Tail(hs), CallHook(Head(hs), c).ret)

\* the registration call c made on the chain hs
Reg(hs, c) ==
    CASE c.method = "colors" -> colors(hs, c.a1)
      [] c.method = "responsive" -> responsive(hs, c.a1)
      [] c.method = "legend" -> legend(hs, c.a1)
      [] c.method = "displayAxes" -> displayAxes(hs, c.a1, c.a2)
      [] c.method = "minimalist" -> minimalist(hs, c.a1)
      [] c.method = "padding" -> padding(hs, c.a1)
      [] c.method = "datasets" -> datasets(hs, c.a1, c.a2)
      [] c.method = "title" -> title(hs, c.a1)
      [] c.method = "beginAtZero" -> beginAtZero(hs, c.a1)

\* ---------------------------------------------------------------- helpers of the properties
Applying == pc \in {"applying", "done"}

\* number of hooks applied so far, the input and the output of hook j
Applied == Len(seen)
In(j) == seen[j]
Out(j) == IF j < Len(seen) THEN seen[j + 1] ELSE chart

\* number of hooks one call registers, and the call that registered hook j
NHooks(c) == IF c.method = "minimalist" THEN 2 ELSE 1

RECURSIVE CallOf(_, _)
CallOf(cs, j) ==
    IF j <= NHooks(Head(cs)) THEN Head(cs)
    ELSE CallOf(Tail(cs), j - NHooks(Head(cs)))

\* the hooks in the order of the calls that registered them: what each call
\* registers on a fresh chain, concatenated in call order
RECURSIVE Order(_)
Order(cs) ==
    IF cs = <<>> THEN <<>> ELSE Reg(<<>>, Head(cs)) \o Order(Tail(cs))

Reverse(s) == [j \in 1..Len(s) |-> s[Len(s) + 1 - j]]

DatasetsOf(c) == Get(Get(c, "data"), "datasets")
HasDatasets(c) == IsArr(DatasetsOf(c))

\* every leaf of the fragment f is in x with f's value
RECURSIVE Contains(_, _)
Contains(x, f) ==
    IF IsMap(f)
    THEN IsMap(x) /\ \A k \in DOMAIN f.v :
            k \in DOMAIN x.v /\ Contains(x.v[k], f.v[k])
    ELSE x = f

\* ---------------------------------------------------------------- C1
\* C1: applying the chain is the left fold of the hooks in the order of
\* their registration: the first hook receives the base, hook j receives
\* the output of hook j-1, the input of hook j is the fold of the hooks
\* registered before it only, and the result is the fold of all of them.
C1_FoldInRegistrationOrder ==
    Applying =>
        /\ \A j \in 1..Applied :
            /\ In(j) = ApplyAll(SubSeq(Order(calls), 1, j - 1), base0)
            /\ Out(j) = CallHook(Order(calls)[j], In(j)).ret
        /\ Applied >= 1 => In(1) = base0
        /\ pc = "done" => chart = ApplyAll(Order(calls), base0)

\* a finished application of two hooks whose order matters
C1_Witness ==
    /\ pc = "done"
    /\ Len(hooks) >= 2
    /\ chart # ApplyAll(Reverse(hooks), base0)

\* ---------------------------------------------------------------- C2
\* C2: a colors(palette) hook applied to a configuration with n datasets
\* and a palette of length k >= 1 sets borderColor and backgroundColor of
\* dataset i (counted from 0) to palette[i mod k].
C2_ColorsCycle ==
    Applying =>
        \A j \in 1..Applied :
            LET palette == CallOf(calls, j).a1
            IN  (/\ hooks[j].kind = "colors"
                 /\ IsArr(palette) /\ Len(palette.v) >= 1
                 /\ HasDatasets(In(j)))
                => /\ HasDatasets(Out(j))
                   /\ \A i \in 0..(Len(DatasetsOf(In(j)).v) - 1) :
                        LET d == DatasetsOf(Out(j)).v[i + 1]
                            col == palette.v[(i % Len(palette.v)) + 1]
                        IN  /\ Get(d, "borderColor") = col
                            /\ Get(d, "backgroundColor") = col

\* a two-colour palette wrapped around three datasets
C2_Witness ==
    /\ pc = "done"
    /\ Applied >= 1
    /\ hooks[Applied].kind = "colors"
    /\ Len(Get(hooks[Applied].env, "colors").v) = 2
    /\ HasDatasets(In(Applied))
    /\ Len(DatasetsOf(In(Applied)).v) >= 3
    /\ Get(DatasetsOf(chart).v[3], "backgroundColor") = Str("red")
    /\ Get(DatasetsOf(chart).v[2], "backgroundColor") = Str("blue")

\* ---------------------------------------------------------------- C3
\* the fragment that entry e of a types list stands for
C3_Fragment(e) == IF e.kind = "str" THEN Map("type" :> e) ELSE e

\* C3: a datasets(types, generalType) hook applied to a configuration with
\* n datasets gives dataset i (counted from 0) the fragment
\* typesList[i mod m], a bare tag counting as {type: tag} and a single type
\* as a one-element list, and sets the top-level type to generalType, 'bar'
\* when not given.
C3_DatasetsCycle ==
    Applying =>
        \A j \in 1..Applied :
            LET call == CallOf(calls, j)
                typesList == IF IsArr(call.a1) THEN call.a1.v ELSE <<call.a1>>
                m == Len(typesList)
            IN  (/\ hooks[j].kind = "datasets"
                 /\ m >= 1
                 /\ HasDatasets(In(j)))
                => /\ HasDatasets(Out(j))
                   /\ \A i \in 0..(Len(DatasetsOf(In(j)).v) - 1) :
                        Contains(DatasetsOf(Out(j)).v[i + 1],
                                 C3_Fragment(typesList[(i % m) + 1]))
                   /\ Get(Out(j), "type") =
                        (IF call.a2 = Undef THEN Str("bar") ELSE call.a2)

\* ['line','bar'] wrapped around three datasets, the general type defaulted
C3_Witness ==
    /\ pc = "done"
    /\ Applied >= 1
    /\ hooks[Applied].kind = "datasets"
    /\ CallOf(calls, Applied).a1 = Arr(<<Str("line"), Str("bar")>>)
    /\ CallOf(calls, Applied).a2 = Undef
    /\ HasDatasets(In(Applied))
    /\ Len(DatasetsOf(In(Applied)).v) >= 3
    /\ Get(DatasetsOf(chart).v[3], "type") = Str("line")
    /\ Get(DatasetsOf(chart).v[2], "type") = Str("bar")
    /\ Get(chart, "type") = Str("bar")

\* ---------------------------------------------------------------- C4
NoDatasets(c) == ~Truthy(DatasetsOf(c))

\* C4 as stated: without a dataset sequence the colors hook and the datasets
\* hook return a configuration equal to their input in every field.
C4_NoOpWithoutDatasets ==
    Applying =>
        \A j \in 1..Applied :
            (hooks[j].kind \in {"colors", "datasets"} /\ NoDatasets(In(j)))
            => Out(j) = In(j)

\* C4 as amended: without a dataset sequence the colors hook returns its input
\* unchanged; the datasets hook leaves every field but the top-level chart
\* type unchanged, adds no dataset sequence, and still sets the top-level
\* type to generalType ('bar' when not given).
C4_NoOpExceptType ==
    Applying =>
        \A j \in 1..Applied :
            (hooks[j].kind \in {"colors", "datasets"} /\ NoDatasets(In(j)))
            => /\ hooks[j].kind = "colors" => Out(j) = In(j)
               /\ hooks[j].kind = "datasets" =>
                    /\ IsMap(Out(j))
                    /\ DOMAIN Out(j).v = DOMAIN In(j).v \cup {"type"}
                    /\ \A k \in DOMAIN In(j).v \ {"type"} :
                            Out(j).v[k] = In(j).v[k]
                    /\ Get(Out(j), "type") =
                        (IF CallOf(calls, j).a2 = Undef THEN Str("bar")
                         ELSE CallOf(calls, j).a2)

\* a colors hook and a datasets hook both applied without a dataset
\* sequence, to a configuration that has a data block and a type
C4_Witness ==
    /\ pc = "done"
    /\ Applied = 2
    /\ hooks[1].kind = "colors"
    /\ hooks[2].kind = "datasets"
    /\ IsMap(Get(In(1), "data"))
    /\ NoDatasets(In(1))
    /\ NoDatasets(In(2))
    /\ Get(In(2), "type") = Str("line")
    /\ Get(chart, "type") = Str("bar")

\* ---------------------------------------------------------------- C5
\* C5: applying a hook does not change the configuration object it was
\* given: the caller's base keeps its top-level type, its options and its
\* data block (the dataset elements may be rebuilt, position by position).
C5_HooksArePure ==
    Applying =>
        /\ Get(base, "type") = Get(base0, "type")
        /\ Get(base, "options") = Get(base0, "options")
        /\ IsMap(Get(base0, "data")) =>
            /\ IsMap(Get(base, "data"))
            /\ DOMAIN Get(base, "data").v = DOMAIN Get(base0, "data").v
            /\ \A k \in DOMAIN Get(base0, "data").v \ {"datasets"} :
                    Get(base, "data").v[k] = Get(base0, "data").v[k]
            /\ HasDatasets(base0) =>
                    Len(DatasetsOf(base).v) = Len(DatasetsOf(base0).v)

\* ---------------------------------------------------------------- C6
MergeKinds ==
    {"responsive", "legend", "displayAxes", "padding", "title", "beginAtZero"}

\* the value at the key path that hooks of one kind write
C6_Leaf(kind, c) ==
    CASE kind = "responsive" -> Get(Get(c, "options"), "maintainAspectRatio")
      [] kind = "legend" -> Get(Get(c, "options"), "legend")
      [] kind = "padding" -> Get(Get(Get(c, "options"), "layout"), "padding")
      [] kind = "title" -> Get(Get(c, "options"), "title")

\* the value the hook writes there
C6_Written(h) ==
    CASE h.kind = "responsive" -> Get(h.env, "maintainAspectRatio")
      [] h.kind = "legend" -> Get(h.env, "legend")
      [] h.kind = "padding" -> Get(h.env, "padding")
      [] h.kind = "title" -> Get(h.env, "title")

\* C6: when two hooks of a chain write the same key path (padding twice,
\* responsive twice, legend twice, title twice), the final configuration
\* holds every leaf written by the one registered later.
C6_LastWriteWins ==
    pc = "done" =>
        \A i, j \in 1..Len(hooks) :
            (/\ i < j
             /\ hooks[i].kind = hooks[j].kind
             /\ hooks[j].kind \in {"responsive", "legend", "padding", "title"}
             /\ \A k \in (j + 1)..Len(hooks) : hooks[k].kind # hooks[j].kind)
            => Contains(C6_Leaf(hooks[j].kind, chart), C6_Written(hooks[j]))

\* padding(5) then padding(10): the final padding is 10
C6_Witness ==
    /\ pc = "done"
    /\ Len(hooks) = 2
    /\ hooks[1].kind = "padding" /\ Get(hooks[1].env, "padding") = Num(5)
    /\ hooks[2].kind = "padding" /\ Get(hooks[2].env, "padding") = Num(10)
    /\ Get(Get(Get(chart, "options"), "layout"), "padding") = Num(10)

\* ---------------------------------------------------------------- C7
\* the key paths to the leaves of a fragment (a leaf is anything but a
\* non-empty object)
RECURSIVE Paths(_)
Paths(n) ==
    IF IsMap(n) /\ DOMAIN n.v # {}
    THEN UNION {{<<k>> \o q : q \in Paths(n.v[k])} : k \in DOMAIN n.v}
    ELSE {<<>>}

IsPrefix(q, r) == Len(q) <= Len(r) /\ SubSeq(r, 1, Len(q)) = q

Disjoint(f, g) ==
    \A q \in Paths(f), r \in Paths(g) : ~IsPrefix(q, r) /\ ~IsPrefix(r, q)

\* the chain with hooks j and j+1 exchanged
Swap(hs, j) ==
    [k \in 1..Len(hs) |->
        IF k = j THEN hs[j + 1] ELSE IF k = j + 1 THEN hs[j] ELSE hs[k]]

\* C7: two neighbouring merge-based hooks whose fragments touch disjoint key
\* paths commute: the chain with the two exchanged gives the same final
\* configuration from the same base.
C7_DisjointCommute ==
    pc = "done" =>
        \A j \in 1..(Len(hooks) - 1) :
            (/\ hooks[j].kind \in MergeKinds
             /\ hooks[j + 1].kind \in MergeKinds
             /\ Disjoint(Fragment(hooks[j]), Fragment(hooks[j + 1])))
            => chart = ApplyAll(Swap(hooks, j), base0)

\* legend then title on a base that has options: both took effect
C7_Witness ==
    /\ pc = "done"
    /\ Len(hooks) = 2
    /\ hooks[1].kind = "legend"
    /\ hooks[2].kind = "title"
    /\ Disjoint(Fragment(hooks[1]), Fragment(hooks[2]))
    /\ Get(Get(Get(chart, "options"), "legend"), "position") = Str("bottom")
    /\ Get(Get(Get(chart, "options"), "title"), "text") = Str("Revenue")
    /\ Get(Get(Get(base0, "options"), "title"), "text") = Str("Old")

\* ---------------------------------------------------------------- C8
NonStrictAxes(h) == h.kind = "displayAxes" /\ ~Truthy(Get(h.env, "strict"))

\* C8: after displayAxes(d1) and a later displayAxes(d2), both not strict
\* and with no later hook writing the axis arrays, xAxes and yAxes each hold
\* exactly one entry, {display: d2}.
C8_AxesReplaced ==
    pc = "done" =>
        \A i, j \in 1..Len(hooks) :
            (/\ i < j
             /\ NonStrictAxes(hooks[i])
             /\ NonStrictAxes(hooks[j])
             /\ \A k \in (j + 1)..Len(hooks) :
                    ~NonStrictAxes(hooks[k]) /\ hooks[k].kind # "beginAtZero")
            => LET scales == Get(Get(chart, "options"), "scales")
                   one == Arr(<<Map("display" :> Get(hooks[j].env, "display"))>>)
               IN  /\ Get(scales, "xAxes") = one
                   /\ Get(scales, "yAxes") = one

\* displayAxes(true) then displayAxes(false) on a base with two x axes
C8_Witness ==
    /\ pc = "done"
    /\ Len(hooks) = 2
    /\ NonStrictAxes(hooks[1]) /\ Get(hooks[1].env, "display") = Bool(TRUE)
    /\ NonStrictAxes(hooks[2]) /\ Get(hooks[2].env, "display") = Bool(FALSE)
    /\ calls[1].method = "displayAxes"
    /\ calls[2].method = "displayAxes"
    /\ Len(Get(Get(Get(base0, "options"), "scales"), "xAxes").v) = 2
    /\ Get(Get(Get(chart, "options"), "scales"), "xAxes")
            = Arr(<<Map("display" :> Bool(FALSE))>>)

\* ---------------------------------------------------------------- C9
\* the calls with every minimalist(v) replaced by legend({display: !v})
\* followed by displayAxes(!v)
RECURSIVE C9_Replace(_)
C9_Replace(cs) ==
    IF cs = <<>> THEN <<>>
    ELSE LET c == Head(cs)
             v == IF c.a1 = Undef THEN TRUE ELSE c.a1.v
         IN  (IF c.method = "minimalist"
              THEN <<Call("legend", Map("display" :> Bool(~v)), Undef),
                     Call("displayAxes", Bool(~v), Undef)>>
              ELSE <<c>>) \o C9_Replace(Tail(cs))

\* the chain built by making the calls cs, in order, on the chain hs
RECURSIVE ChainOn(_, _)
ChainOn(hs, cs) ==
    IF cs = <<>> THEN hs ELSE ChainOn(Reg(hs, Head(cs)), Tail(cs))

HasMinimalist == \E n \in 1..Len(calls) : calls[n].method = "minimalist"

\* C9: a chain built with minimalist(v) is the chain built with
\* legend({display: !v}) and displayAxes(!v) called in its place, and gives
\* the same final configuration from every base.
C9_MinimalistExpands ==
    HasMinimalist =>
        /\ hooks = ChainOn(<<>>, C9_Replace(calls))
        /\ pc = "done" =>
                chart = ApplyAll(ChainOn(<<>>, C9_Replace(calls)), base0)

\* minimalist() after another call, applied to a base with options
C9_Witness ==
    /\ pc = "done"
    /\ Len(calls) = 2
    /\ calls[1].method = "beginAtZero"
    /\ calls[2].method = "minimalist"
    /\ Len(hooks) = 3
    /\ IsMap(Get(base0, "options"))
    /\ Get(Get(Get(chart, "options"), "legend"), "display") = Bool(FALSE)
    /\ Get(Get(Get(chart, "options"), "scales"), "yAxes")
            = Arr(<<Map("display" :> Bool(FALSE))>>)

\* ---------------------------------------------------------------- C10
\* the title fragment the argument arg stands for
C10_Expected(arg) ==
    IF arg.kind = "str"
    THEN Map("text" :> arg @@ "display" :> Bool(TRUE))
    ELSE LET o == IF arg = Undef THEN EmptyObj ELSE arg
         IN  Map([k \in DOMAIN o.v \cup {"display"} |->
                    IF k \in DOMAIN o.v THEN o.v[k] ELSE Bool(TRUE)])

\* C10: title(s) with a string s registers the title fragment
\* {text: s, display: true}; title(o) with an options fragment o registers o
\* with display defaulting to true, a display given in o winning; the hook
\* merges that fragment under options.title.
C10_TitleNormalized ==
    \A j \in 1..Len(hooks) :
        hooks[j].kind = "title" =>
            LET expected == C10_Expected(CallOf(calls, j).a1)
            IN  /\ Get(hooks[j].env, "title") = expected
                /\ (Applying /\ j <= Applied) =>
                    /\ Out(j) = mergeOptions(In(j),
                                    Map("options" :> Map("title" :> expected)))
                    /\ Contains(Get(Get(Out(j), "options"), "title"), expected)

\* title({text: 'Revenue', display: false}) applied: display stays false
C10_Witness ==
    /\ pc = "done"
    /\ Applied >= 1
    /\ hooks[Applied].kind = "title"
    /\ CallOf(calls, Applied).a1
            = Map("text" :> Str("Revenue") @@ "display" :> Bool(FALSE))
    /\ Get(Get(Get(chart, "options"), "title"), "display") = Bool(FALSE)
    /\ Get(Get(Get(chart, "options"), "title"), "text") = Str("Revenue")

\* ---------------------------------------------------------------- C11
\* C11: applying a chain on which no registration method was called gives a
\* configuration equal to the base, and leaves the caller's base as it was.
C11_EmptyChainIsIdentity ==
    (pc = "done" /\ calls = <<>>) =>
        /\ chart = base0
        /\ base = base0

\* an empty chain applied to a base with datasets and options
C11_Witness ==
    /\ pc = "done"
    /\ calls = <<>>
    /\ HasDatasets(base0)
    /\ Len(DatasetsOf(base0).v) >= 2
    /\ IsMap(Get(base0, "options"))
    /\ chart = base0

\* ---------------------------------------------------------------- C12
\* C12: every hook closes over a copy of its argument taken when it was
\* registered: whatever the caller does to the argument objects afterwards,
\* the chain is the chain that the arguments, as they were when they were
\* passed, register, and applying it gives that chain's result.
C12_ClosesOverCopy ==
    /\ hooks = ChainOn(<<>>, calls)
    /\ pc = "done" => chart = ApplyAll(ChainOn(<<>>, calls), base0)

\* ---------------------------------------------------------------- C13
\* C13: the chain is append-only.  It starts empty; every step leaves the
\* hooks it had as a prefix of the hooks it has; a registration call adds
\* exactly one hook (minimalist exactly two); a step of applying the chain
\* leaves the hooks as they are, so the chain can be applied again.
C13_AppendOnly ==
    /\ hooks = <<>>
    /\ [][/\ IsPrefix(hooks, hooks')
          /\ calls' # calls =>
                Len(hooks') = Len(hooks) + NHooks(calls'[Len(calls')])
          /\ calls' = calls => hooks' = hooks]_vars

\* a chain of three hooks, two of them from minimalist, applied to the end
C13_Witness ==
    /\ pc = "done"
    /\ Len(calls) = 2
    /\ calls[1].method = "minimalist"
    /\ Len(hooks) = 3
    /\ Applied = 3

\* ---------------------------------------------------------------- C14
\* C14: legend(b) with a boolean b registers the hook that
\* legend({display: b}) registers; applied, it sets options.legend.display
\* to b and keeps every other key that options.legend had, whether from the
\* base or from an earlier hook.
C14_LegendBoolean ==
    \A j \in 1..Len(hooks) :
        LET call == CallOf(calls, j)
        IN  (/\ hooks[j].kind = "legend"
             /\ call.method = "legend"
             /\ call.a1.kind = "bool")
            => /\ hooks[j] = legend(<<>>, Map("display" :> call.a1))[1]
               /\ (Applying /\ j <= Applied) =>
                    LET before == Get(Get(In(j), "options"), "legend")
                        after == Get(Get(Out(j), "options"), "legend")
                    IN  /\ IsMap(after)
                        /\ Get(after, "display") = call.a1
                        /\ IsMap(before) =>
                            \A k \in DOMAIN before.v \ {"display"} :
                                Get(after, k) = before.v[k]

\* legend({position: 'bottom'}) then legend(false), on a base whose legend
\* is displayed at the top: the position of the earlier hook is kept
C14_Witness ==
    /\ pc = "done"
    /\ Len(calls) = 2
    /\ calls[1] = Call("legend", Map("position" :> Str("bottom")), Undef)
    /\ calls[2] = Call("legend", Bool(FALSE), Undef)
    /\ Get(Get(Get(base0, "options"), "legend"), "display") = Bool(TRUE)
    /\ Get(Get(chart, "options"), "legend")
            = Map("position" :> Str("bottom") @@ "display" :> Bool(FALSE))

\* ---------------------------------------------------------------- C15
\* C15: after displayAxes(d), not strict, and a later beginAtZero(v), with
\* no other hook writing the axis arrays after the displayAxes,
\* options.scales.yAxes is exactly [{ticks: {beginAtZero: v}}] and
\* options.scales.xAxes is still [{display: d}].
C15_YAxesReplaced ==
    pc = "done" =>
        \A i, j \in 1..Len(hooks) :
            (/\ i < j
             /\ NonStrictAxes(hooks[i])
             /\ hooks[j].kind = "beginAtZero"
             /\ \A k \in ((i + 1)..Len(hooks)) \ {j} :
                    ~NonStrictAxes(hooks[k]) /\ hooks[k].kind # "beginAtZero")
            => LET scales == Get(Get(chart, "options"), "scales")
               IN  /\ Get(scales, "yAxes")
                        = Arr(<<Map("ticks" :>
                                  Map("beginAtZero" :>
                                      Get(hooks[j].env, "beginAtZero")))>>)
                   /\ Get(scales, "xAxes")
                        = Arr(<<Map("display" :> Get(hooks[i].env, "display"))>>)

\* displayAxes(false) then beginAtZero() on a base with axes of its own
C15_Witness ==
    /\ pc = "done"
    /\ calls = <<Call("displayAxes", Bool(FALSE), Undef),
                 Call("beginAtZero", Undef, Undef)>>
    /\ IsMap(Get(base0, "options"))
    /\ Get(Get(Get(chart, "options"), "scales"), "yAxes")
            = Arr(<<Map("ticks" :> Map("beginAtZero" :> Bool(TRUE)))>>)
    /\ Get(Get(Get(chart, "options"), "scales"), "xAxes")
            = Arr(<<Map("display" :> Bool(FALSE))>>)

\* ---------------------------------------------------------------- C16
\* what a merge of the fragment frag leaves alone: at every level that the
\* fragment descends into, the keys are those of the input and of the
\* fragment, and the keys that the fragment does not name have their value
\* of the input
RECURSIVE C16_Kept(_, _, _)
C16_Kept(in, out, frag) ==
    (IsMap(in) /\ IsMap(frag)) =>
        /\ IsMap(out)
        /\ DOMAIN out.v = DOMAIN in.v \cup DOMAIN frag.v
        /\ \A k \in DOMAIN in.v :
                IF k \in DOMAIN frag.v
                THEN C16_Kept(in.v[k], out.v[k], frag.v[k])
                ELSE out.v[k] = in.v[k]

\* C16: a merge-based hook changes only the key path that its fragment
\* names: the top-level type, the data block and every options key absent
\* from the fragment have the same value in its output as in its input.
C16_MergeFrame ==
    Applying =>
        \A j \in 1..Applied :
            hooks[j].kind \in MergeKinds =>
                /\ Get(Out(j), "type") = Get(In(j), "type")
                /\ Get(Out(j), "data") = Get(In(j), "data")
                /\ C16_Kept(In(j), Out(j), Fragment(hooks[j]))

\* responsive(false) applied to a base with datasets and options
C16_Witness ==
    /\ pc = "done"
    /\ Applied >= 1
    /\ hooks[Applied].kind = "responsive"
    /\ HasDatasets(In(Applied))
    /\ Get(Get(In(Applied), "options"), "maintainAspectRatio") = Bool(TRUE)
    /\ Get(Get(chart, "options"), "maintainAspectRatio") = Bool(FALSE)
    /\ Get(Get(chart, "options"), "legend")
            = Get(Get(In(Applied), "options"), "legend")
    /\ IsMap(Get(Get(chart, "options"), "legend"))

\* ---------------------------------------------------------------- C17
\* the dataset fields that hook h names for the dataset at index i
\* (counted from 0)
C17_Named(h, i) ==
    IF h.kind = "colors" THEN {"borderColor", "backgroundColor"}
    ELSE LET t == Get(h.env, "t")
         IN  DOMAIN t.v[(i % Len(t.v)) + 1].v

\* C17: a colors or datasets hook keeps the shape of the dataset sequence:
\* the same length, the same order, and for dataset i the fields of the
\* input plus the fields the hook names for i, every field it does not name
\* with its value of the input.
C17_DatasetShapeKept ==
    Applying =>
        \A j \in 1..Applied :
            (hooks[j].kind \in {"colors", "datasets"} /\ HasDatasets(In(j)))
            => /\ HasDatasets(Out(j))
               /\ Len(DatasetsOf(Out(j)).v) = Len(DatasetsOf(In(j)).v)
               /\ \A i \in 0..(Len(DatasetsOf(In(j)).v) - 1) :
                    LET before == DatasetsOf(In(j)).v[i + 1]
                        after == DatasetsOf(Out(j)).v[i + 1]
                    IN  /\ IsMap(after)
                        /\ DOMAIN after.v
                            = DOMAIN before.v \cup C17_Named(hooks[j], i)
                        /\ \A k \in DOMAIN before.v \ C17_Named(hooks[j], i) :
                                after.v[k] = before.v[k]

\* colors on three datasets: the first keeps its type and fill and loses
\* its black border, the datasets are still in their order
C17_Witness ==
    /\ pc = "done"
    /\ Applied >= 1
    /\ hooks[Applied].kind = "colors"
    /\ HasDatasets(In(Applied))
    /\ Len(DatasetsOf(chart).v) = 3
    /\ Get(DatasetsOf(In(Applied)).v[1], "borderColor") = Str("black")
    /\ Get(DatasetsOf(chart).v[1], "borderColor") = Str("red")
    /\ Get(DatasetsOf(chart).v[1], "type") = Str("pie")
    /\ \A n \in 1..3 : Get(DatasetsOf(chart).v[n], "order") = Num(n)

\* ---------------------------------------------------------------- C18
\* the sequence s without its entry j
Without(s, j) == SubSeq(s, 1, j - 1) \o SubSeq(s, j + 1, Len(s))

\* C18: every hook is idempotent: applied to its own output it returns
\* that output; and a chain in which a hook is directly followed by an
\* equal hook gives the final configuration of the chain without the
\* repetition.
C18_Idempotent ==
    Applying =>
        /\ \A j \in 1..Applied :
                CallHook(hooks[j], Out(j)).ret = Out(j)
        /\ pc = "done" =>
                \A j \in 1..(Len(hooks) - 1) :
                    hooks[j] = hooks[j + 1] =>
                        chart = ApplyAll(Without(hooks, j + 1), base0)

\* the same datasets call twice on three datasets: typed as by one call
C18_Witness ==
    /\ pc = "done"
    /\ Len(calls) = 2
    /\ calls[1] = calls[2]
    /\ calls[1].method = "datasets"
    /\ IsArr(calls[1].a1)
    /\ HasDatasets(base0)
    /\ Len(DatasetsOf(base0).v) = 3
    /\ chart # base0
    /\ chart = ApplyAll(<<hooks[1]>>, base0)

====
